---- MODULE Spec2Model ----
(***************************************************************************)
(* The dashboard component of esp32-dashboard1 (src/src/App.jsx) and its   *)
(* two earlier variants (src/unnamed/part_001, src/unnamed/part_002) as a  *)
(* state machine: the React state of the component, the Supabase backend   *)
(* it talks to, the realtime events and the requests in flight.            *)
(*                                                                         *)
(* Time is counted in hours.  Every await of the source is two steps: the  *)
(* backend answers the request (it reads or writes its tables), and later  *)
(* the component's continuation handles the answer.                        *)
(***************************************************************************)
EXTENDS Integers, Sequences, FiniteSets, TLC

\* ---------------------------------------------------------------- bounds
\* The clock advances MaxTicks times, each time by one of ClockSteps (hours).
MaxTicks == 1
ClockSteps == {12}
\* toggleRelay calls whose write is in flight at the same time.
MaxWrites == 2
\* Realtime UPDATE events on their way at the same time; one more is lost.
MaxPending == 1
\* Temperatures the sensor reports, in tenths of a degree.
SensorTemps == {5}
\* The poll timer's age advances by one of TimerSteps (seconds) at a time.
TimerSteps == {10}
\* The readings a rendered view is computed from: at most MaxView rows, with
\* temperatures of ViewTemps (tenths of a degree: -0.5, 0, 5, 10, 10.5, 11,
\* 20 and 20.5 degrees).
MaxView == 2
ViewTemps == {-5, 0, 50, 100, 105, 110, 200, 205}
\* Their ages at mount, and the dates the pickers offer before mount, in hours.
ViewAges == {0, 12, 24}

\* ------------------------------------------------------ program constants
\* twentyFourHoursAgo.setHours(twentyFourHoursAgo.getHours() - 24)
WindowHours == 24
\* setInterval(pollData, 15000): the period in seconds
PollPeriod == 15
\* part_002: .limit(100), if (newData.length > 100) return newData.slice(-100)
MaxEntries == 100

VARIABLES
  now,              \* the wall clock, in hours
  sensor_data,      \* backend table sensor_data: a set of rows
  relay_control,    \* backend table relay_control: id -> state
  system_settings,  \* backend row system_settings(id = 1).automatic_mode
  insertEvents,     \* realtime INSERT events of sensor_data on their way to the channel
  dropped,          \* rows whose INSERT event the realtime service never delivers
  updateEvents,     \* realtime UPDATE events (relay_control, system_settings) on their way
  mounted,          \* the component is mounted
  data,             \* useState([])    : the readings array
  relay1On,         \* useState(false)
  relay2On,         \* useState(false)
  automaticMode,    \* useState(true)
  isLoading,        \* useState(true)
  error,            \* useState(null)  : TRUE when a message is set
  lastUpdate,       \* useState('N/A') : "N/A", or "time" once a clock string is stored
  lastAlert,        \* the text of the last alert(...) shown, "" when none
  load,             \* the fetchAllData call of the mount effect
  pollTimers,       \* interval timers armed by the polling effect: the age of each, in seconds
  poll,             \* the pollData call in flight
  refresh,          \* the manual-refresh onClick call in flight
  writes,           \* toggleRelay calls in flight
  modeWrite,        \* the toggleMode call in flight
  startDate,        \* useState(null)  : << >> for null, << t >> for the date t
  endDate,          \* useState(null)
  screen            \* what the last render put on the screen

vars == << now, sensor_data, relay_control, system_settings, insertEvents, dropped,
           updateEvents, mounted, data, relay1On, relay2On, automaticMode, isLoading, error,
           lastUpdate, lastAlert, load, pollTimers, poll, refresh, writes, modeWrite,
           startDate, endDate, screen >>

\* ---------------------------------------------------------------- helpers
Row(t, c) == [inserted_at |-> t, temperature |-> c]

\* The clock at mount, and the latest time the model follows it to.
StartTime == MaxEntries + WindowHours
MaxTime == StartTime + MaxTicks * 12

\* Array.prototype.sort with the comparator a.inserted_at - b.inserted_at:
\* a stable sort, so equal timestamps keep their order.  InsertSorted puts r
\* into the sorted s after the entries that are not later than r.
InsertSorted(s, r) ==
  LET k == Cardinality({ i \in DOMAIN s : s[i].inserted_at <= r.inserted_at })
  IN  SubSeq(s, 1, k) \o << r >> \o SubSeq(s, k + 1, Len(s))

RECURSIVE SortByInsertedAt(_)
SortByInsertedAt(s) ==
  IF s = << >> THEN << >>
  ELSE InsertSorted(SortByInsertedAt(SubSeq(s, 1, Len(s) - 1)), s[Len(s)])

\* .filter(item => new Date(item.inserted_at) >= twentyFourHoursAgo)
FilterSince(s, cutoff) == SelectSeq(s, LAMBDA item : item.inserted_at >= cutoff)

\* const twentyFourHoursAgo = new Date(); setHours(getHours() - 24)
TwentyFourHoursAgo == now - WindowHours

\* The rows of a set in some order.
RECURSIVE SetToSeq(_)
SetToSeq(S) ==
  IF S = {} THEN << >>
  ELSE LET r == CHOOSE q \in S : TRUE
       IN  << r >> \o SetToSeq(S \ {r})

\* The rows of S, whose timestamps are in lo..hi, in ascending inserted_at
\* order: those of the lower half of lo..hi, then those of the upper half.
RECURSIVE OrderRange(_, _, _)
OrderRange(S, lo, hi) ==
  IF S = {} THEN << >>
  ELSE IF lo = hi THEN SetToSeq(S)
  ELSE LET mid == (lo + hi) \div 2
       IN  OrderRange({ r \in S : r.inserted_at <= mid }, lo, mid)
             \o OrderRange({ r \in S : r.inserted_at > mid }, mid + 1, hi)

\* The rows of a set in ascending inserted_at order (.order('inserted_at', {ascending: true})).
OrderAscending(S) ==
  IF S = {} THEN << >>
  ELSE LET times == { r.inserted_at : r \in S }
           lo == CHOOSE t \in times : \A u \in times : t <= u
           hi == CHOOSE t \in times : \A u \in times : u <= t
       IN  OrderRange(S, lo, hi)

\* from('sensor_data').select('*').gte('inserted_at', cutoff).order(ascending)
SelectWindow(cutoff) == OrderAscending({ r \in sensor_data : r.inserted_at >= cutoff })

\* from('sensor_data').select('inserted_at').order(descending).limit(1)
SelectLatest ==
  IF sensor_data = {} THEN << >>
  ELSE << CHOOSE r \in sensor_data : \A q \in sensor_data : q.inserted_at <= r.inserted_at >>


\* ------------------------------------------------------- requests in flight
\* An awaited Supabase call: "waiting" until the backend answers it, then
\* "ok" with its result ({data, error: null}) or "error" ({data: null, error}).
Waiting == [status |-> "waiting", rows |-> << >>, flag |-> FALSE]
OkRows(rows) == [status |-> "ok", rows |-> rows, flag |-> FALSE]
OkFlag(b) == [status |-> "ok", rows |-> << >>, flag |-> b]
Failed == [status |-> "error", rows |-> << >>, flag |-> FALSE]

\* What the backend answers to the query a call is waiting on at pc.
Answer(pc, cutoff) ==
  CASE pc = "sensor"  -> OkRows(SelectWindow(cutoff))
    [] pc = "refetch" -> OkRows(SelectWindow(cutoff))
    [] pc = "latest"  -> OkRows(SelectLatest)
    [] pc = "relay1"  -> OkFlag(relay_control[1])
    [] pc = "relay2"  -> OkFlag(relay_control[2])
    [] pc = "mode"    -> OkFlag(system_settings)

\* A state setter called after the unmount changes nothing.
SetState(old, new) == IF mounted THEN new ELSE old

\* A call in flight: where it is (pc), the cut-off and the last timestamp it
\* computed, the request it awaits, and whether the timer that started it
\* has been cleared since (cancelled).
Idle == [pc |-> "idle", cutoff |-> 0, currentLatest |-> 0, req |-> Waiting, cancelled |-> FALSE]
Call(pc, cutoff, latest) ==
  [pc |-> pc, cutoff |-> cutoff, currentLatest |-> latest, req |-> Waiting, cancelled |-> FALSE]

\* A toggleRelay call in flight: its relayId, currentState and newState.
\* Three fields record its history: alone, no other toggleRelay call has been
\* in flight since it started; and, while it is alone, older, the UPDATE
\* events that were on their way when the backend performed its write (its
\* own event included), and reported, the last value of its relay that the
\* channel has delivered since the call started and, once the backend has
\* performed its write, from a write performed after its own (<< >> when
\* none).
Write(id, cur) ==
  [relayId |-> id, currentState |-> cur, newState |-> ~cur, req |-> Waiting,
   alone |-> writes = << >>, older |-> 0, reported |-> << >>]

\* The calls in flight when another call starts: none of them is alone.
Joined(w) ==
  [j \in DOMAIN w |-> [w[j] EXCEPT !.alone = FALSE, !.older = 0, !.reported = << >>]]
\* The toggleMode call in flight: its newMode.
NoModeWrite == [pc |-> "idle", newMode |-> FALSE, req |-> Waiting]
ModeWrite(m) == [pc |-> "update", newMode |-> m, req |-> Waiting]

\* payload.new of an UPDATE event of relay_control or system_settings.
RelayEvent(id, state) == [table |-> "relay_control", id |-> id, value |-> state]
ModeEvent(mode) == [table |-> "system_settings", id |-> 1, value |-> mode]

\* The realtime service sends an UPDATE event to the subscribed channel, in
\* the order of the updates, or loses it.
Publish(events, ev, lost) ==
  IF lost \/ Len(events) >= MaxPending \/ ~mounted THEN events ELSE Append(events, ev)

\* The sequence s without its i-th element.
RemoveAt(s, i) == SubSeq(s, 1, i - 1) \o SubSeq(s, i + 1, Len(s))

backendVars == << sensor_data, relay_control, system_settings >>
channelVars == << insertEvents, dropped, updateEvents >>
relayVars == << relay1On, relay2On, automaticMode >>
viewVars == << isLoading, error, lastUpdate, lastAlert >>
writeVars == << writes, modeWrite >>
screenVars == << startDate, endDate, screen >>

\* ----------------------------------------------------------- derived view
\* null: the date pickers' cleared value and the value of currentTemp when
\* there is none.  A date or a number v is << v >>.
Null == << >>

\* getFilteredData: data itself when no date is set, else the items between
\* the dates that are set.
GetFilteredData(d, start, end) ==
  IF start = Null /\ end = Null THEN d
  ELSE SelectSeq(d, LAMBDA item :
                      /\ (start = Null \/ item.inserted_at >= start[1])
                      /\ (end = Null \/ item.inserted_at <= end[1]))

\* filteredData[filteredData.length - 1]: undefined (<< >>) for an empty array.
LatestReading(filteredData) ==
  IF Len(filteredData) > 0 THEN << filteredData[Len(filteredData)] >> ELSE << >>

\* latestReading?.temperature || null: undefined when there is no reading,
\* and the || replaces every falsy value, the temperature 0 included, by null.
CurrentTemp(filteredData) ==
  LET latestReading == LatestReading(filteredData)
  IN  IF latestReading = << >> THEN Null
      ELSE IF latestReading[1].temperature = 0 THEN Null
      ELSE << latestReading[1].temperature >>

\* filteredData.reduce((sum, item) => sum + item.temperature, 0)
RECURSIVE SumTemperature(_)
SumTemperature(items) ==
  IF items = << >> THEN 0
  ELSE SumTemperature(SubSeq(items, 1, Len(items) - 1)) + items[Len(items)].temperature

\* The quotient sum / n of a sum in tenths of a degree, cut to one decimal
\* place without rounding.
Truncated1(sum, n) ==
  [dashes |-> FALSE, neg |-> sum < 0, tenths |-> (IF sum < 0 THEN -sum ELSE sum) \div n]

\* (sum / n).toFixed(1) for a sum in tenths of a degree: the text of the
\* decimal with one digit after the point that is nearest to the quotient,
\* the larger in magnitude of two equally near; a negative quotient has the
\* sign in front.  The text is its sign and its digits, read as tenths.
Fixed1(sum, n) ==
  [dashes |-> FALSE, neg |-> sum < 0,
   tenths |-> (2 * (IF sum < 0 THEN -sum ELSE sum) + n) \div (2 * n)]

\* The text '--'.
Dashes == [dashes |-> TRUE, neg |-> FALSE, tenths |-> 0]

\* filteredData.length > 0 ? (reduce(...) / filteredData.length).toFixed(1) : '--'
AvgTemp(filteredData) ==
  IF Len(filteredData) > 0
  THEN Fixed1(SumTemperature(filteredData), Len(filteredData))
  ELSE Dashes

\* The bounds of the two relay ranges, 0-10 and 11-20 degrees, in tenths.
Relay1Range == << 0, 100 >>
Relay2Range == << 110, 200 >>

\* The texts under the current temperature: each of the three expressions
\* renders its text when its condition holds.
RangeTexts(currentTemp) ==
  { l \in {"In Relay 1 range (0-10°C)", "In Relay 2 range (11-20°C)", "Outside control ranges"} :
      /\ currentTemp # Null
      /\ \/ /\ l = "In Relay 1 range (0-10°C)"
            /\ currentTemp[1] >= Relay1Range[1]
            /\ currentTemp[1] <= Relay1Range[2]
         \/ /\ l = "In Relay 2 range (11-20°C)"
            /\ currentTemp[1] >= Relay2Range[1]
            /\ currentTemp[1] <= Relay2Range[2]
         \/ /\ l = "Outside control ranges"
            /\ (currentTemp[1] < Relay1Range[1] \/ currentTemp[1] > Relay2Range[2]) }

\* The screen while isLoading: the spinner, no cards.
Spinner ==
  [cards |-> FALSE, filteredData |-> << >>, currentTemp |-> Null, avgTemp |-> Dashes,
   rangeTexts |-> {}]

\* renderTemperatureCards: the view of this render and what the cards show
\* of it.
Cards(d, start, end) ==
  LET filteredData == GetFilteredData(d, start, end)
  IN  [cards |-> TRUE, filteredData |-> filteredData,
       currentTemp |-> CurrentTemp(filteredData), avgTemp |-> AvgTemp(filteredData),
       rangeTexts |-> RangeTexts(CurrentTemp(filteredData))]

\* React renders the component after a change of its state.
Render ==
  /\ mounted
  /\ screen' = IF isLoading THEN Spinner ELSE Cards(data, startDate, endDate)
  /\ UNCHANGED << now, backendVars, channelVars, mounted, data, relayVars, viewVars,
                  load, pollTimers, poll, refresh, writeVars, startDate, endDate >>

\* The dates the pickers offer.
Dates == { << StartTime - a >> : a \in ViewAges }

\* onChange={date => setStartDate(date)}
SetStartDate ==
  /\ mounted
  /\ \E date \in Dates : startDate' = date
  /\ UNCHANGED << now, backendVars, channelVars, mounted, data, relayVars, viewVars,
                  load, pollTimers, poll, refresh, writeVars, endDate, screen >>

\* onChange={date => setEndDate(date)}; the picker offers no date before
\* startDate (minDate).
SetEndDate ==
  /\ mounted
  /\ \E date \in { d \in Dates : startDate = Null \/ d[1] >= startDate[1] } :
       endDate' = date
  /\ UNCHANGED << now, backendVars, channelVars, mounted, data, relayVars, viewVars,
                  load, pollTimers, poll, refresh, writeVars, startDate, screen >>

\* The clear button, shown while a date is set: setStartDate(null); setEndDate(null)
ClearDates ==
  /\ mounted
  /\ startDate # Null \/ endDate # Null
  /\ startDate' = Null
  /\ endDate' = Null
  /\ UNCHANGED << now, backendVars, channelVars, mounted, data, relayVars, viewVars,
                  load, pollTimers, poll, refresh, writeVars, screen >>

\* ------------------------------------------------------------------- Init
\* The component has mounted: the three mount effects have run, so
\* fetchAllData has sent its first query, the channel is subscribed and the
\* poll timer is armed.  The backend may already hold a row, inserted
\* WindowHours before the mount.
InitialRows == { Row(StartTime - WindowHours, c) : c \in SensorTemps }

InitComponent ==
  /\ now = StartTime
  /\ insertEvents = {}
  /\ dropped = {}
  /\ updateEvents = << >>
  /\ mounted = TRUE
  /\ data = << >>
  /\ relay1On = FALSE
  /\ relay2On = FALSE
  /\ automaticMode = TRUE
  /\ isLoading = TRUE
  /\ error = FALSE
  /\ lastUpdate = "N/A"
  /\ lastAlert = ""
  /\ load = Call("sensor", now - WindowHours, 0)
  /\ pollTimers = << 0 >>
  /\ poll = Idle
  /\ refresh = Idle
  /\ writes = << >>
  /\ modeWrite = NoModeWrite
  /\ startDate = Null
  /\ endDate = Null
  /\ screen = Spinner

Init ==
  /\ InitComponent
  /\ sensor_data \in { S \in SUBSET InitialRows : Cardinality(S) <= 1 }
  /\ relay_control = [id \in {1, 2} |-> FALSE]
  /\ system_settings = TRUE

\* ------------------------------------------------------------ environment
\* Time passes.
Tick ==
  /\ mounted
  /\ \E d \in ClockSteps :
       /\ now + d <= MaxTime
       /\ now' = now + d
  /\ UNCHANGED << backendVars, channelVars, mounted, data, relayVars, viewVars,
                  load, pollTimers, poll, refresh, writeVars, screenVars >>

\* The sensor inserts a row (inserted_at defaults to the backend's clock).
\* The realtime service sends its INSERT event to the subscribed channel, or
\* loses it.
InsertRow ==
  /\ mounted
  /\ \A r \in sensor_data : r.inserted_at < now
  /\ \E c \in SensorTemps, lost \in BOOLEAN :
       /\ sensor_data' = sensor_data \cup {Row(now, c)}
       /\ insertEvents' = IF lost THEN insertEvents ELSE insertEvents \cup {Row(now, c)}
       /\ dropped' = IF lost THEN dropped \cup {Row(now, c)} ELSE dropped
  /\ UNCHANGED << now, screenVars, relay_control, system_settings, updateEvents, mounted, data,
                  relayVars, viewVars, load, pollTimers, poll, refresh, writeVars >>

\* Seconds pass: every armed timer grows older, until it is due.
Elapse ==
  /\ mounted
  /\ \E i \in DOMAIN pollTimers : pollTimers[i] < PollPeriod
  /\ \E d \in TimerSteps :
       pollTimers' = [i \in DOMAIN pollTimers |->
                       IF pollTimers[i] + d < PollPeriod THEN pollTimers[i] + d ELSE PollPeriod]
  /\ UNCHANGED << now, screenVars, backendVars, channelVars, mounted, data, relayVars, viewVars,
                  load, poll, refresh, writeVars >>

\* ---------------------------------------------------------- polling effect
\* The effect run again without its cleanup: a timer more is armed.
RearmedUncleared(timers) == IF mounted THEN Append(timers, 0) ELSE timers

\* Every setData stores a new array, so the polling effect (dependency
\* [data]) runs again: its cleanup clears the armed timer (clearInterval) and
\* the effect arms a new one (setInterval), whose period starts again and
\* whose pollData closes over the new data.
Rearmed(timers) == IF mounted THEN << 0 >> ELSE timers

\* A pollData call in flight goes on after its timer has been cleared.
Orphaned(p) == IF mounted /\ p.pc # "idle" THEN [p EXCEPT !.cancelled = TRUE] ELSE p

\* The timers that are due, and the timers after timer i has fired: an
\* interval timer stays armed and its period starts again.
Due(timers) == { i \in DOMAIN timers : timers[i] >= PollPeriod }
Fired(timers, i) == [timers EXCEPT ![i] = 0]

\* ------------------------------------------------- realtime INSERT handler
\* The merge without its .sort(...).
PushMergeUnsorted(prev, row) == FilterSince(Append(prev, row), TwentyFourHoursAgo)

\* setData(prev => [...prev, payload.new].filter(...).sort(...))
PushMerge(prev, row) ==
  SortByInsertedAt(FilterSince(Append(prev, row), TwentyFourHoursAgo))

\* The sensor_data INSERT handler of the channel.
InsertHandler(r) ==
  /\ mounted
  /\ r \in insertEvents
  /\ insertEvents' = insertEvents \ {r}
  /\ data' = PushMerge(data, r)
  /\ pollTimers' = Rearmed(pollTimers)
  /\ poll' = Orphaned(poll)
  /\ lastUpdate' = "time"
  /\ UNCHANGED << now, screenVars, backendVars, dropped, updateEvents, mounted, relayVars,
                  isLoading, error, lastAlert, load, refresh, writeVars >>

\* ------------------------------------------------------------ fetchAllData
\* The backend answers the query fetchAllData is waiting on.
LoadAnswer ==
  /\ load.pc \in {"sensor", "relay1", "relay2", "mode"}
  /\ load.req.status = "waiting"
  /\ load' = [load EXCEPT !.req = Answer(load.pc, load.cutoff)]
  /\ UNCHANGED << now, screenVars, backendVars, channelVars, mounted, data, relayVars, viewVars,
                  pollTimers, poll, refresh, writeVars >>

\* The query fetchAllData is waiting on fails.
LoadError ==
  /\ load.pc \in {"sensor", "relay1", "relay2", "mode"}
  /\ load.req.status = "waiting"
  /\ load' = [load EXCEPT !.req = Failed]
  /\ UNCHANGED << now, screenVars, backendVars, channelVars, mounted, data, relayVars, viewVars,
                  pollTimers, poll, refresh, writeVars >>

\* A query's answer handled without looking at its error: the rows of a
\* failed query are taken to be none.
ReceivedUnchecked(prev, req) == SetState(prev, req.rows)

\* if (newData) setData(newData): the rows of an answered query replace data;
\* a failed query has no rows ({data: null, error}) and sets nothing.
Received(prev, req) == IF req.status = "ok" THEN SetState(prev, req.rows) ELSE prev

\* The catch of fetchAllData without its setError.
CatchSilent(err) == err

\* catch (err) { setError('Failed to load initial data. ...') }
Catch(err) == SetState(err, TRUE)

\* if (sensorError) throw sensorError; if (sensorData) setData(sensorData);
\* the catch sets the error message, the finally clears isLoading.  A call
\* that threw ends at "failed", one that ran through at "done".
LoadSensorDone ==
  /\ load.pc = "sensor"
  /\ load.req.status # "waiting"
  /\ data' = Received(data, load.req)
  /\ IF load.req.status = "error"
     THEN /\ error' = Catch(error)
          /\ isLoading' = SetState(isLoading, FALSE)
          /\ load' = [load EXCEPT !.pc = "failed", !.req = Waiting]
          /\ UNCHANGED << pollTimers, poll >>
     ELSE /\ pollTimers' = Rearmed(pollTimers)
          /\ poll' = Orphaned(poll)
          /\ load' = [load EXCEPT !.pc = "relay1", !.req = Waiting]
          /\ UNCHANGED << error, isLoading >>
  /\ UNCHANGED << now, screenVars, backendVars, channelVars, mounted, relayVars, lastUpdate,
                  lastAlert, refresh, writeVars >>

\* if (!relay1Error && relay1Data) setRelay1On(relay1Data.state);
LoadRelay1Done ==
  /\ load.pc = "relay1"
  /\ load.req.status # "waiting"
  /\ relay1On' = IF load.req.status = "ok" THEN SetState(relay1On, load.req.flag) ELSE relay1On
  /\ load' = [load EXCEPT !.pc = "relay2", !.req = Waiting]
  /\ UNCHANGED << now, screenVars, backendVars, channelVars, mounted, data, relay2On, automaticMode,
                  viewVars, pollTimers, poll, refresh, writeVars >>

\* if (!relay2Error && relay2Data) setRelay2On(relay2Data.state);
LoadRelay2Done ==
  /\ load.pc = "relay2"
  /\ load.req.status # "waiting"
  /\ relay2On' = IF load.req.status = "ok" THEN SetState(relay2On, load.req.flag) ELSE relay2On
  /\ load' = [load EXCEPT !.pc = "mode", !.req = Waiting]
  /\ UNCHANGED << now, screenVars, backendVars, channelVars, mounted, data, relay1On, automaticMode,
                  viewVars, pollTimers, poll, refresh, writeVars >>

\* if (!modeError && modeData) setAutomaticMode(...); setLastUpdate(...);
\* setError(null); finally setIsLoading(false).
LoadModeDone ==
  /\ load.pc = "mode"
  /\ load.req.status # "waiting"
  /\ automaticMode' = IF load.req.status = "ok" THEN SetState(automaticMode, load.req.flag)
                      ELSE automaticMode
  /\ lastUpdate' = SetState(lastUpdate, "time")
  /\ error' = SetState(error, FALSE)
  /\ isLoading' = SetState(isLoading, FALSE)
  /\ load' = [load EXCEPT !.pc = "done", !.req = Waiting]
  /\ UNCHANGED << now, screenVars, backendVars, channelVars, mounted, data, relay1On, relay2On,
                  lastAlert, pollTimers, poll, refresh, writeVars >>

\* ---------------------------------------------------------------- pollData
\* data.length > 0 ? new Date(data[data.length - 1].inserted_at).getTime() : 0
CurrentLatest(d) == IF Len(d) > 0 THEN d[Len(d)].inserted_at ELSE 0

\* if (latestData && latestData.length > 0) ... if (lastTimestamp > currentLatest)
NeedsRefetch(req, currentLatest) ==
  /\ req.status = "ok"
  /\ Len(req.rows) > 0
  /\ req.rows[1].inserted_at > currentLatest

\* The interval timer fires: pollData computes its cut-off and sends the
\* latest-timestamp query.  pollData reads the data of the render that armed
\* the timer (its closure), which is the current data when the timer fires;
\* the call keeps what it will read of it, the last timestamp.  The model
\* follows one pollData call at a time: a call is taken to end within the
\* timer's period.
PollStart ==
  /\ mounted
  /\ poll.pc = "idle"
  /\ \E i \in Due(pollTimers) : pollTimers' = Fired(pollTimers, i)
  /\ poll' = Call("latest", TwentyFourHoursAgo, CurrentLatest(data))
  /\ UNCHANGED << now, screenVars, backendVars, channelVars, mounted, data, relayVars, viewVars,
                  load, refresh, writeVars >>

\* The backend answers the query pollData is waiting on.
PollAnswer ==
  /\ poll.pc \in {"latest", "refetch", "relay1", "relay2"}
  /\ poll.req.status = "waiting"
  /\ poll' = [poll EXCEPT !.req = Answer(poll.pc, poll.cutoff)]
  /\ UNCHANGED << now, screenVars, backendVars, channelVars, mounted, data, relayVars, viewVars,
                  load, pollTimers, refresh, writeVars >>

\* The query pollData is waiting on fails.
PollError ==
  /\ poll.pc \in {"latest", "refetch", "relay1", "relay2"}
  /\ poll.req.status = "waiting"
  /\ poll' = [poll EXCEPT !.req = Failed]
  /\ UNCHANGED << now, screenVars, backendVars, channelVars, mounted, data, relayVars, viewVars,
                  load, pollTimers, refresh, writeVars >>

\* After the latest-timestamp answer: send the full-window query if the
\* backend's latest row is newer than the closure's, else go on to the relays.
PollLatestDone ==
  /\ poll.pc = "latest"
  /\ poll.req.status # "waiting"
  /\ poll' = [poll EXCEPT !.pc = IF NeedsRefetch(poll.req, poll.currentLatest)
                                 THEN "refetch" ELSE "relay1",
                          !.req = Waiting]
  /\ UNCHANGED << now, screenVars, backendVars, channelVars, mounted, data, relayVars, viewVars,
                  load, pollTimers, refresh, writeVars >>

\* if (newData) setData(newData);
PollRefetchDone ==
  /\ poll.pc = "refetch"
  /\ poll.req.status # "waiting"
  /\ data' = Received(data, poll.req)
  /\ pollTimers' = IF poll.req.status = "ok" THEN Rearmed(pollTimers) ELSE pollTimers
  /\ poll' = [(IF poll.req.status = "ok" THEN Orphaned(poll) ELSE poll)
                 EXCEPT !.pc = "relay1", !.req = Waiting]
  /\ UNCHANGED << now, screenVars, backendVars, channelVars, mounted, relayVars, viewVars,
                  load, refresh, writeVars >>

\* A relay query's answer that is not applied.
PolledUnapplied(old, req) == old

\* if (relayData) setRelayOn(relayData.state): a failed query has no row.
Polled(old, req) == IF req.status = "ok" THEN SetState(old, req.flag) ELSE old

\* if (relay1Data) setRelay1On(relay1Data.state);
PollRelay1Done ==
  /\ poll.pc = "relay1"
  /\ poll.req.status # "waiting"
  /\ relay1On' = Polled(relay1On, poll.req)
  /\ poll' = [poll EXCEPT !.pc = "relay2", !.req = Waiting]
  /\ UNCHANGED << now, screenVars, backendVars, channelVars, mounted, data, relay2On, automaticMode,
                  viewVars, load, pollTimers, refresh, writeVars >>

\* if (relay2Data) setRelay2On(relay2Data.state); setLastUpdate(...)
PollRelay2Done ==
  /\ poll.pc = "relay2"
  /\ poll.req.status # "waiting"
  /\ relay2On' = Polled(relay2On, poll.req)
  /\ lastUpdate' = SetState(lastUpdate, "time")
  /\ poll' = Idle
  /\ UNCHANGED << now, screenVars, backendVars, channelVars, mounted, data, relay1On, automaticMode,
                  isLoading, error, lastAlert, load, pollTimers, refresh, writeVars >>

\* ---------------------------------------------------------- manual refresh
\* The refresh button is part of renderControlPanel, which is rendered only
\* while isLoading is false.
RefreshClick ==
  /\ mounted
  /\ ~isLoading
  /\ isLoading' = TRUE
  /\ refresh' = Call("sensor", TwentyFourHoursAgo, 0)
  /\ UNCHANGED << now, screenVars, backendVars, channelVars, mounted, data, relayVars, error,
                  lastUpdate, lastAlert, load, pollTimers, poll, writeVars >>

RefreshAnswer ==
  /\ refresh.pc = "sensor"
  /\ refresh.req.status = "waiting"
  /\ refresh' = [refresh EXCEPT !.req = Answer("sensor", refresh.cutoff)]
  /\ UNCHANGED << now, screenVars, backendVars, channelVars, mounted, data, relayVars, viewVars,
                  load, pollTimers, poll, writeVars >>

RefreshError ==
  /\ refresh.pc = "sensor"
  /\ refresh.req.status = "waiting"
  /\ refresh' = [refresh EXCEPT !.req = Failed]
  /\ UNCHANGED << now, screenVars, backendVars, channelVars, mounted, data, relayVars, viewVars,
                  load, pollTimers, poll, writeVars >>

\* if (newData) setData(newData); setLastUpdate(...); finally setIsLoading(false)
RefreshDone ==
  /\ refresh.pc = "sensor"
  /\ refresh.req.status # "waiting"
  /\ data' = Received(data, refresh.req)
  /\ pollTimers' = IF refresh.req.status = "ok" THEN Rearmed(pollTimers) ELSE pollTimers
  /\ poll' = IF refresh.req.status = "ok" THEN Orphaned(poll) ELSE poll
  /\ lastUpdate' = SetState(lastUpdate, "time")
  /\ isLoading' = SetState(isLoading, FALSE)
  /\ refresh' = Idle
  /\ UNCHANGED << now, screenVars, backendVars, channelVars, mounted, relayVars, error, lastAlert,
                  load, writeVars >>

\* ------------------------------------------------------------- toggleRelay
RelayOn(id) == IF id = 1 THEN relay1On ELSE relay2On

\* toggleRelay without its check of automaticMode.
ToggleRelayUngated(id) ==
  /\ mounted
  /\ ~isLoading
  /\ Len(writes) < MaxWrites
  /\ writes' = Append(Joined(writes), Write(id, RelayOn(id)))
  /\ UNCHANGED << now, screenVars, backendVars, channelVars, mounted, data, relayVars, viewVars,
                  load, pollTimers, poll, refresh, modeWrite >>

\* toggleRelay(relayId) up to its await: in Automatic mode it alerts and
\* returns; else it sends the update of relay_control with the negated state.
\* The relay buttons are part of renderControlPanel; they are disabled while
\* automaticMode is true, so a call in Automatic mode is one no click makes:
\* the check of automaticMode is toggleRelay's own guard.
ToggleRelay(id) ==
  /\ mounted
  /\ ~isLoading
  /\ automaticMode \/ Len(writes) < MaxWrites
  /\ IF automaticMode
     THEN /\ lastAlert' = "Please switch to manual mode to control relays"
          /\ UNCHANGED writes
     ELSE /\ writes' = Append(Joined(writes), Write(id, RelayOn(id)))
          /\ UNCHANGED lastAlert
  /\ UNCHANGED << now, screenVars, backendVars, channelVars, mounted, data, relayVars, isLoading,
                  error, lastUpdate, load, pollTimers, poll, refresh, modeWrite >>

\* The backend performs the update a toggleRelay call is waiting on.
ToggleAnswer(i) ==
  /\ i \in DOMAIN writes
  /\ writes[i].req.status = "waiting"
  /\ relay_control' = [relay_control EXCEPT ![writes[i].relayId] = writes[i].newState]
  /\ \E lost \in BOOLEAN :
       LET sent == Publish(updateEvents, RelayEvent(writes[i].relayId, writes[i].newState), lost)
       IN  /\ updateEvents' = sent
           /\ writes' = [writes EXCEPT ![i].req = OkFlag(writes[i].newState),
                                       ![i].older = IF writes[i].alone THEN Len(sent) ELSE 0,
                                       ![i].reported = << >>]
  /\ UNCHANGED << now, screenVars, sensor_data, system_settings, insertEvents, dropped, mounted, data,
                  relayVars, viewVars, load, pollTimers, poll, refresh, modeWrite >>

\* The update a toggleRelay call is waiting on fails.
ToggleError(i) ==
  /\ i \in DOMAIN writes
  /\ writes[i].req.status = "waiting"
  /\ writes' = [writes EXCEPT ![i].req = Failed]
  /\ UNCHANGED << now, screenVars, backendVars, channelVars, mounted, data, relayVars, viewVars,
                  load, pollTimers, poll, refresh, modeWrite >>

\* if (error) throw error; if (relayId === 1) setRelay1On(newState); else
\* setRelay2On(newState); the catch alerts.
ToggleDone(i) ==
  /\ i \in DOMAIN writes
  /\ writes[i].req.status # "waiting"
  /\ IF writes[i].req.status = "error"
     THEN /\ lastAlert' = "Failed to update relay state"
          /\ UNCHANGED << relay1On, relay2On >>
     ELSE /\ relay1On' = IF writes[i].relayId = 1 THEN SetState(relay1On, writes[i].newState)
                         ELSE relay1On
          /\ relay2On' = IF writes[i].relayId = 1 THEN relay2On
                         ELSE SetState(relay2On, writes[i].newState)
          /\ UNCHANGED lastAlert
  /\ writes' = RemoveAt(writes, i)
  /\ UNCHANGED << now, screenVars, backendVars, channelVars, mounted, data, automaticMode, isLoading,
                  error, lastUpdate, load, pollTimers, poll, refresh, modeWrite >>

\* -------------------------------------------------------------- toggleMode
\* toggleMode up to its await; the model follows one call at a time.
ToggleMode ==
  /\ mounted
  /\ ~isLoading
  /\ modeWrite.pc = "idle"
  /\ modeWrite' = ModeWrite(~automaticMode)
  /\ UNCHANGED << now, screenVars, backendVars, channelVars, mounted, data, relayVars, viewVars,
                  load, pollTimers, poll, refresh, writes >>

\* The backend performs the update of system_settings toggleMode is waiting on.
ModeAnswer ==
  /\ modeWrite.pc = "update"
  /\ modeWrite.req.status = "waiting"
  /\ system_settings' = modeWrite.newMode
  /\ \E lost \in BOOLEAN :
       updateEvents' = Publish(updateEvents, ModeEvent(modeWrite.newMode), lost)
  /\ modeWrite' = [modeWrite EXCEPT !.req = OkFlag(modeWrite.newMode)]
  /\ UNCHANGED << now, screenVars, sensor_data, relay_control, insertEvents, dropped, mounted, data,
                  relayVars, viewVars, load, pollTimers, poll, refresh, writes >>

ModeError ==
  /\ modeWrite.pc = "update"
  /\ modeWrite.req.status = "waiting"
  /\ modeWrite' = [modeWrite EXCEPT !.req = Failed]
  /\ UNCHANGED << now, screenVars, backendVars, channelVars, mounted, data, relayVars, viewVars,
                  load, pollTimers, poll, refresh, writes >>

\* if (error) throw error; setAutomaticMode(newMode); the catch alerts.
ModeDone ==
  /\ modeWrite.pc = "update"
  /\ modeWrite.req.status # "waiting"
  /\ IF modeWrite.req.status = "error"
     THEN /\ lastAlert' = "Failed to change system mode"
          /\ UNCHANGED automaticMode
     ELSE /\ automaticMode' = SetState(automaticMode, modeWrite.newMode)
          /\ UNCHANGED lastAlert
  /\ modeWrite' = NoModeWrite
  /\ UNCHANGED << now, screenVars, backendVars, channelVars, mounted, data, relay1On, relay2On,
                  isLoading, error, lastUpdate, load, pollTimers, poll, refresh, writes >>

\* -------------------------------------------------- realtime UPDATE handlers
\* The history of the toggleRelay calls in flight once the channel has
\* delivered ev: for a call that is alone, ev is one of the events that were
\* on their way before the backend performed the call's write (older), or it
\* reports another write.
Heard(w, ev) ==
  [j \in DOMAIN w |->
     IF ~w[j].alone THEN w[j]
     ELSE IF w[j].older > 0 THEN [w[j] EXCEPT !.older = @ - 1]
     ELSE IF ev.table = "relay_control" /\ ev.id = w[j].relayId
          THEN [w[j] EXCEPT !.reported = << ev.value >>]
     ELSE w[j]]

\* relay_control: if (payload.new.id === 1) setRelay1On(payload.new.state);
\*                if (payload.new.id === 2) setRelay2On(payload.new.state);
\* system_settings: if (payload.new.id === 1) setAutomaticMode(...)
UpdateHandler ==
  /\ mounted
  /\ updateEvents # << >>
  /\ LET ev == Head(updateEvents) IN
       /\ relay1On' = IF ev.table = "relay_control" /\ ev.id = 1 THEN ev.value ELSE relay1On
       /\ relay2On' = IF ev.table = "relay_control" /\ ev.id = 2 THEN ev.value ELSE relay2On
       /\ automaticMode' = IF ev.table = "system_settings" /\ ev.id = 1 THEN ev.value
                           ELSE automaticMode
  /\ updateEvents' = Tail(updateEvents)
  /\ writes' = Heard(writes, Head(updateEvents))
  /\ UNCHANGED << now, screenVars, backendVars, insertEvents, dropped, mounted, data, viewVars,
                  load, pollTimers, poll, refresh, modeWrite >>

\* ------------------------------------------------------------ other writers
\* Another writer (the controller of the relays, a second dashboard) changes
\* a relay's row.
ExternalRelayWrite(id) ==
  /\ mounted
  /\ relay_control' = [relay_control EXCEPT ![id] = ~relay_control[id]]
  /\ \E lost \in BOOLEAN :
       updateEvents' = Publish(updateEvents, RelayEvent(id, ~relay_control[id]), lost)
  /\ UNCHANGED << now, screenVars, sensor_data, system_settings, insertEvents, dropped, mounted, data,
                  relayVars, viewVars, load, pollTimers, poll, refresh, writeVars >>

\* Another writer changes the system mode.
ExternalModeWrite ==
  /\ mounted
  /\ system_settings' = ~system_settings
  /\ \E lost \in BOOLEAN :
       updateEvents' = Publish(updateEvents, ModeEvent(~system_settings), lost)
  /\ UNCHANGED << now, screenVars, sensor_data, relay_control, insertEvents, dropped, mounted, data,
                  relayVars, viewVars, load, pollTimers, poll, refresh, writeVars >>

\* --------------------------------------------------------------- reconnect
\* The socket of the realtime client drops and the client joins the channel
\* again: the events that were on their way are not delivered.  .subscribe()
\* is called without a status callback, so the component runs no code.
Rejoin ==
  /\ mounted
  /\ insertEvents' = {}
  /\ dropped' = dropped \cup insertEvents
  /\ updateEvents' = << >>
  /\ UNCHANGED << now, screenVars, backendVars, mounted, data, relayVars, viewVars, load,
                  pollTimers, poll, refresh, writeVars >>

\* ----------------------------------------------------------------- unmount
\* The unmount without the effects' cleanups.
UnmountUncleared ==
  /\ mounted
  /\ mounted' = FALSE
  /\ UNCHANGED << now, screenVars, backendVars, channelVars, data, relayVars, viewVars, load,
                  pollTimers, poll, refresh, writeVars >>

\* The effects' cleanups: supabase.removeChannel(channel), clearInterval(interval).
Unmount ==
  /\ mounted
  /\ mounted' = FALSE
  /\ insertEvents' = {}
  /\ updateEvents' = << >>
  /\ pollTimers' = << >>
  /\ poll' = Orphaned(poll)
  /\ UNCHANGED << now, screenVars, backendVars, dropped, data, relayVars, viewVars, load,
                  refresh, writeVars >>

\* ================================================ the optimistic variant
\* src/unnamed/part_001 sets the local state before it awaits the write and
\* puts it back when the write has failed.  It has no isLoading state, so
\* its buttons are on the screen from the mount on.

\* toggleRelay1 / toggleRelay2 up to the await: the check of automaticMode,
\* setRelayOn(newState) and the update sent.
OptimisticToggleRelay(id) ==
  /\ mounted
  /\ automaticMode \/ Len(writes) < MaxWrites
  /\ IF automaticMode
     THEN /\ lastAlert' = "Cannot toggle relays in Automatic mode. Switch to Manual mode first."
          /\ UNCHANGED << writes, relay1On, relay2On >>
     ELSE /\ writes' = Append(Joined(writes), Write(id, RelayOn(id)))
          /\ relay1On' = IF id = 1 THEN ~relay1On ELSE relay1On
          /\ relay2On' = IF id = 2 THEN ~relay2On ELSE relay2On
          /\ UNCHANGED lastAlert
  /\ UNCHANGED << now, screenVars, backendVars, channelVars, mounted, data, automaticMode,
                  isLoading, error, lastUpdate, load, pollTimers, poll, refresh, modeWrite >>

\* if (error) { setRelay1On(!newState) }
Reverted(w, old) == SetState(old, ~w.newState)

\* toggleRelay1 / toggleRelay2 after the await.
OptimisticToggleDone(i) ==
  /\ i \in DOMAIN writes
  /\ writes[i].req.status # "waiting"
  /\ relay1On' = IF writes[i].req.status = "error" /\ writes[i].relayId = 1
                  THEN Reverted(writes[i], relay1On) ELSE relay1On
  /\ relay2On' = IF writes[i].req.status = "error" /\ writes[i].relayId = 2
                  THEN Reverted(writes[i], relay2On) ELSE relay2On
  /\ writes' = RemoveAt(writes, i)
  /\ UNCHANGED << now, screenVars, backendVars, channelVars, mounted, data, automaticMode,
                  viewVars, load, pollTimers, poll, refresh, modeWrite >>

\* toggleMode up to the await: setAutomaticMode(newMode) and the update sent.
OptimisticToggleMode ==
  /\ mounted
  /\ modeWrite.pc = "idle"
  /\ modeWrite' = ModeWrite(~automaticMode)
  /\ automaticMode' = ~automaticMode
  /\ UNCHANGED << now, screenVars, backendVars, channelVars, mounted, data, relay1On, relay2On,
                  viewVars, load, pollTimers, poll, refresh, writes >>

\* if (error) { setAutomaticMode(!newMode) }
OptimisticModeDone ==
  /\ modeWrite.pc = "update"
  /\ modeWrite.req.status # "waiting"
  /\ automaticMode' = IF modeWrite.req.status = "error"
                       THEN SetState(automaticMode, ~modeWrite.newMode) ELSE automaticMode
  /\ modeWrite' = NoModeWrite
  /\ UNCHANGED << now, screenVars, backendVars, channelVars, mounted, data, relay1On, relay2On,
                  viewVars, load, pollTimers, poll, refresh, writes >>

\* ============================================ the count-bounded variant
\* src/unnamed/part_002 keeps the latest MaxEntries readings instead of the
\* readings of the last WindowHours.  It has no isLoading, error and
\* automaticMode state; calls use load and poll as App.jsx's do.

\* .order('inserted_at', { ascending: false })
OrderDescending(S) ==
  LET asc == OrderAscending(S)
  IN  [i \in 1..Len(asc) |-> asc[Len(asc) + 1 - i]]

\* .limit(n)
Limit(s, n) == SubSeq(s, 1, IF Len(s) < n THEN Len(s) ELSE n)

\* from('sensor_data').select(...).order(descending).limit(100)
SelectNewest == Limit(OrderDescending(sensor_data), MaxEntries)

\* rows.reverse()
Reverse(s) == [i \in 1..Len(s) |-> s[Len(s) + 1 - i]]

\* What the backend answers to the query a call of part_002 is waiting on.
\* The relays' rows exist, so the insert that would create one is refused.
AnswerNewest(pc) ==
  CASE pc = "sensor"  -> OkRows(SelectNewest)
    [] pc = "refetch" -> OkRows(SelectNewest)
    [] pc = "latest"  -> OkRows(SelectLatest)
    [] pc = "relay1"  -> OkFlag(relay_control[1])
    [] pc = "relay2"  -> OkFlag(relay_control[2])
    [] pc = "create1" -> Failed
    [] pc = "create2" -> Failed

\* The merge that keeps every entry.
KeepAll(prev, row) == Append(prev, row)

\* const newData = [...prev, payload.new];
\* if (newData.length > 100) return newData.slice(-100); return newData;
KeepLatest(prev, row) ==
  LET newData == Append(prev, row)
  IN  IF Len(newData) > MaxEntries
      THEN SubSeq(newData, Len(newData) - MaxEntries + 1, Len(newData))
      ELSE newData

\* The sensor_data INSERT handler of part_002's channel.
CountInsertHandler(r) ==
  /\ mounted
  /\ r \in insertEvents
  /\ insertEvents' = insertEvents \ {r}
  /\ data' = KeepLatest(data, r)
  /\ pollTimers' = Rearmed(pollTimers)
  /\ poll' = Orphaned(poll)
  /\ lastUpdate' = "time"
  /\ UNCHANGED << now, screenVars, backendVars, dropped, updateEvents, mounted, relayVars,
                  isLoading, error, lastAlert, load, refresh, writeVars >>

\* The backend answers the query fetchData is waiting on.
FetchDataAnswer ==
  /\ load.pc \in {"sensor", "relay1", "create1", "relay2", "create2"}
  /\ load.req.status = "waiting"
  /\ load' = [load EXCEPT !.req = AnswerNewest(load.pc)]
  /\ UNCHANGED << now, screenVars, backendVars, channelVars, mounted, data, relayVars, viewVars,
                  pollTimers, poll, refresh, writeVars >>

\* A query of fetchData fails.
FetchDataError ==
  /\ load.pc \in {"sensor", "relay1", "relay2"}
  /\ load.req.status = "waiting"
  /\ load' = [load EXCEPT !.req = Failed]
  /\ UNCHANGED << now, screenVars, backendVars, channelVars, mounted, data, relayVars, viewVars,
                  pollTimers, poll, refresh, writeVars >>

\* if (!sensorError && rows && rows.length > 0) { setData(rows.reverse());
\* setLastUpdate(...) }
FetchDataSensorDone ==
  /\ load.pc = "sensor"
  /\ load.req.status # "waiting"
  /\ IF load.req.status = "ok" /\ Len(load.req.rows) > 0
     THEN /\ data' = SetState(data, Reverse(load.req.rows))
          /\ pollTimers' = Rearmed(pollTimers)
          /\ poll' = Orphaned(poll)
          /\ lastUpdate' = SetState(lastUpdate, "time")
     ELSE UNCHANGED << data, pollTimers, poll, lastUpdate >>
  /\ load' = [load EXCEPT !.pc = "relay1", !.req = Waiting]
  /\ UNCHANGED << now, screenVars, backendVars, channelVars, mounted, relayVars, isLoading, error,
                  lastAlert, refresh, writeVars >>

\* if (!relay1Error && relay1Rows) setRelay1On(relay1Rows.state);
\* else if (relay1Error) await insert([{ id: 1, state: false }])
FetchDataRelay1Done ==
  /\ load.pc = "relay1"
  /\ load.req.status # "waiting"
  /\ relay1On' = IF load.req.status = "ok" THEN SetState(relay1On, load.req.flag) ELSE relay1On
  /\ load' = [load EXCEPT !.pc = IF load.req.status = "ok" THEN "relay2" ELSE "create1",
                          !.req = Waiting]
  /\ UNCHANGED << now, screenVars, backendVars, channelVars, mounted, data, relay2On, automaticMode,
                  viewVars, pollTimers, poll, refresh, writeVars >>

\* if (!relay2Error && relay2Rows) setRelay2On(relay2Rows.state);
\* else if (relay2Error) await insert([{ id: 2, state: false }])
FetchDataRelay2Done ==
  /\ load.pc = "relay2"
  /\ load.req.status # "waiting"
  /\ relay2On' = IF load.req.status = "ok" THEN SetState(relay2On, load.req.flag) ELSE relay2On
  /\ load' = [load EXCEPT !.pc = IF load.req.status = "ok" THEN "done" ELSE "create2",
                          !.req = Waiting]
  /\ UNCHANGED << now, screenVars, backendVars, channelVars, mounted, data, relay1On, automaticMode,
                  viewVars, pollTimers, poll, refresh, writeVars >>

\* if (createError) console.error(...): fetchData goes on.
FetchDataCreateDone ==
  /\ load.pc \in {"create1", "create2"}
  /\ load.req.status # "waiting"
  /\ load' = [load EXCEPT !.pc = IF load.pc = "create1" THEN "relay2" ELSE "done",
                          !.req = Waiting]
  /\ UNCHANGED << now, screenVars, backendVars, channelVars, mounted, data, relayVars, viewVars,
                  pollTimers, poll, refresh, writeVars >>

\* The interval timer of part_002 fires: its callback sends the
\* latest-timestamp query.  It reads the data of the render that armed the
\* timer; the call keeps the last timestamp of it.
PollIntervalStart ==
  /\ mounted
  /\ poll.pc = "idle"
  /\ \E i \in Due(pollTimers) : pollTimers' = Fired(pollTimers, i)
  /\ poll' = Call("latest", 0, CurrentLatest(data))
  /\ UNCHANGED << now, screenVars, backendVars, channelVars, mounted, data, relayVars, viewVars,
                  load, refresh, writeVars >>

\* The backend answers the query the callback is waiting on.
PollIntervalAnswer ==
  /\ poll.pc \in {"latest", "refetch", "relay1", "relay2"}
  /\ poll.req.status = "waiting"
  /\ poll' = [poll EXCEPT !.req = AnswerNewest(poll.pc)]
  /\ UNCHANGED << now, screenVars, backendVars, channelVars, mounted, data, relayVars, viewVars,
                  load, pollTimers, refresh, writeVars >>

\* The query the callback is waiting on fails.
PollIntervalError ==
  /\ poll.pc \in {"latest", "refetch", "relay1", "relay2"}
  /\ poll.req.status = "waiting"
  /\ poll' = [poll EXCEPT !.req = Failed]
  /\ UNCHANGED << now, screenVars, backendVars, channelVars, mounted, data, relayVars, viewVars,
                  load, pollTimers, refresh, writeVars >>

\* if (!error && latestData && latestData.length > 0) ...
\*   if (latestTimestamp > currentDataLatest) await the newest MaxEntries rows
PollIntervalLatestDone ==
  /\ poll.pc = "latest"
  /\ poll.req.status # "waiting"
  /\ poll' = [poll EXCEPT !.pc = IF NeedsRefetch(poll.req, poll.currentLatest)
                                 THEN "refetch" ELSE "relay1",
                          !.req = Waiting]
  /\ UNCHANGED << now, screenVars, backendVars, channelVars, mounted, data, relayVars, viewVars,
                  load, pollTimers, refresh, writeVars >>

\* if (!error && refreshedData && refreshedData.length > 0) {
\*   setData(refreshedData.reverse()); setLastUpdate(...) }
PollIntervalRefetchDone ==
  /\ poll.pc = "refetch"
  /\ poll.req.status # "waiting"
  /\ IF poll.req.status = "ok" /\ Len(poll.req.rows) > 0
     THEN /\ data' = SetState(data, Reverse(poll.req.rows))
          /\ pollTimers' = Rearmed(pollTimers)
          /\ lastUpdate' = SetState(lastUpdate, "time")
          /\ poll' = [Orphaned(poll) EXCEPT !.pc = "relay1", !.req = Waiting]
     ELSE /\ poll' = [poll EXCEPT !.pc = "relay1", !.req = Waiting]
          /\ UNCHANGED << data, pollTimers, lastUpdate >>
  /\ UNCHANGED << now, screenVars, backendVars, channelVars, mounted, relayVars, isLoading, error,
                  lastAlert, load, refresh, writeVars >>

\* if (!relay1Error && relay1Data) setRelay1On(relay1Data.state);
PollIntervalRelay1Done ==
  /\ poll.pc = "relay1"
  /\ poll.req.status # "waiting"
  /\ relay1On' = IF poll.req.status = "ok" THEN SetState(relay1On, poll.req.flag) ELSE relay1On
  /\ poll' = [poll EXCEPT !.pc = "relay2", !.req = Waiting]
  /\ UNCHANGED << now, screenVars, backendVars, channelVars, mounted, data, relay2On, automaticMode,
                  viewVars, load, pollTimers, refresh, writeVars >>

\* if (!relay2Error && relay2Data) setRelay2On(relay2Data.state);
PollIntervalRelay2Done ==
  /\ poll.pc = "relay2"
  /\ poll.req.status # "waiting"
  /\ relay2On' = IF poll.req.status = "ok" THEN SetState(relay2On, poll.req.flag) ELSE relay2On
  /\ poll' = Idle
  /\ UNCHANGED << now, screenVars, backendVars, channelVars, mounted, data, relay1On, automaticMode,
                  viewVars, load, pollTimers, refresh, writeVars >>

\* ---------------------------------------------------------- specifications
\* The steps of the component's calls, whatever the environment does.
Calls ==
  \/ LoadAnswer \/ LoadError
  \/ LoadSensorDone \/ LoadRelay1Done \/ LoadRelay2Done \/ LoadModeDone
  \/ PollStart \/ PollAnswer \/ PollError
  \/ PollLatestDone \/ PollRefetchDone \/ PollRelay1Done \/ PollRelay2Done

\* fetchAllData and pollData are sequential: at most one of a call's steps
\* is enabled at a time.
LoadStep ==
  \/ LoadAnswer
  \/ LoadSensorDone \/ LoadRelay1Done \/ LoadRelay2Done \/ LoadModeDone
PollStep ==
  \/ PollStart \/ PollAnswer
  \/ PollLatestDone \/ PollRefetchDone \/ PollRelay1Done \/ PollRelay2Done

\* Sensor-data synchronisation: rows arrive while the bulk load, the push
\* channel, the poll and the manual refresh run.  Nobody writes the relays.
Next ==
  \/ Tick
  \/ Elapse
  \/ InsertRow
  \/ \E r \in insertEvents : InsertHandler(r)
  \/ Calls
  \/ RefreshClick \/ RefreshAnswer \/ RefreshError \/ RefreshDone

Spec == Init /\ [][Next]_vars

\* The mount when the backend holds no row yet.
InitEmpty ==
  /\ InitComponent
  /\ sensor_data = {}
  /\ relay_control = [id \in {1, 2} |-> FALSE]
  /\ system_settings = TRUE

\* Sensor-data synchronisation when every request succeeds and the user
\* clicks nothing: the clock advances and the sensor inserts rows once the
\* bulk load has ended.  The timer keeps firing, the backend answers every
\* query, every continuation runs and every event on its way is delivered.
NextFair ==
  \/ load.pc \in {"done", "failed"} /\ Tick
  \/ load.pc \in {"done", "failed"} /\ InsertRow
  \/ Elapse
  \/ \E r \in insertEvents : InsertHandler(r)
  \/ LoadStep
  \/ PollStep

Fairness ==
  /\ WF_vars(Elapse)
  /\ WF_vars(\E r \in insertEvents : InsertHandler(r))
  /\ WF_vars(LoadStep)
  /\ WF_vars(PollStep)

SpecFair == InitEmpty /\ [][NextFair]_vars /\ Fairness

\* The component's life: as above, and the realtime socket drops and joins
\* again, and the component is unmounted.
NextLife ==
  \/ load.pc \in {"done", "failed"} /\ Tick
  \/ load.pc \in {"done", "failed"} /\ InsertRow
  \/ Elapse
  \/ \E r \in insertEvents : InsertHandler(r)
  \/ LoadStep
  \/ PollStep
  \/ Rejoin
  \/ Unmount

SpecLife == InitEmpty /\ [][NextLife]_vars

\* Loading: the bulk load and the manual refreshes, whose queries the
\* backend answers, fails or leaves unanswered, while the sensor inserts a
\* row.  The event loop runs the continuation of every query that has an
\* answer; nothing makes the backend answer.
LoadDone ==
  \/ LoadSensorDone \/ LoadRelay1Done \/ LoadRelay2Done \/ LoadModeDone

NextLoading ==
  \/ InsertRow
  \/ LoadAnswer \/ LoadError
  \/ LoadDone
  \/ RefreshClick \/ RefreshAnswer \/ RefreshError
  \/ RefreshDone

SpecLoading ==
  Init /\ [][NextLoading]_vars /\ WF_vars(LoadDone) /\ WF_vars(RefreshDone)

\* Convergence of the relay and mode state: another writer switches each
\* relay on and the system to manual, once each, and the user clicks
\* nothing.  The timer keeps firing, the backend answers every query, every
\* continuation runs and every event that is on its way is delivered; an
\* UPDATE event may be lost.  A relay's row changes from off to on only, so
\* on is the newer value.
NextConverge ==
  \/ Elapse
  \/ LoadStep
  \/ PollStep
  \/ UpdateHandler
  \/ \E id \in {1, 2} : ~relay_control[id] /\ ExternalRelayWrite(id)
  \/ system_settings /\ ExternalModeWrite

FairnessConverge ==
  /\ WF_vars(Elapse)
  /\ WF_vars(LoadStep)
  /\ WF_vars(PollStep)
  /\ WF_vars(UpdateHandler)

SpecConverge == Init /\ [][NextConverge]_vars /\ FairnessConverge

\* Relay and mode control: once the bulk load has answered, the user clicks
\* the relay and mode buttons, the realtime UPDATE events arrive and another
\* writer changes the relays' rows.  The clock stands still, the sensor
\* inserts nothing, the queries of the bulk load succeed and the poll timer
\* does not fire.
NextRelay ==
  \/ LoadStep
  \/ \E id \in {1, 2} : ToggleRelay(id)
  \/ \E i \in DOMAIN writes : ToggleAnswer(i)
  \/ \E i \in DOMAIN writes : ToggleError(i)
  \/ \E i \in DOMAIN writes : ToggleDone(i)
  \/ ToggleMode \/ ModeAnswer \/ ModeError \/ ModeDone
  \/ UpdateHandler
  \/ \E id \in {1, 2} : ExternalRelayWrite(id)

SpecRelay == InitEmpty /\ [][NextRelay]_vars

\* The count-bounded variant: at its mount the backend holds MaxEntries rows,
\* which the sensor has inserted hourly; then rows arrive while fetchData,
\* the push channel and the poll run.  A row handled before fetchData's
\* answer goes into an array that is not full, one handled after it into a
\* full one, and a query answered after a row's insertion finds more than
\* MaxEntries rows.
StoredRows == { Row(t, c) : t \in (StartTime - MaxEntries)..(StartTime - 1), c \in SensorTemps }

InitCount ==
  /\ InitComponent
  /\ sensor_data = StoredRows
  /\ relay_control = [id \in {1, 2} |-> FALSE]
  /\ system_settings = TRUE

NextCount ==
  \/ Tick
  \/ Elapse
  \/ InsertRow
  \/ \E r \in insertEvents : CountInsertHandler(r)
  \/ FetchDataAnswer \/ FetchDataError
  \/ FetchDataSensorDone \/ FetchDataRelay1Done \/ FetchDataRelay2Done
  \/ FetchDataCreateDone
  \/ PollIntervalStart \/ PollIntervalAnswer \/ PollIntervalError
  \/ PollIntervalLatestDone \/ PollIntervalRefetchDone
  \/ PollIntervalRelay1Done \/ PollIntervalRelay2Done

SpecCount == InitCount /\ [][NextCount]_vars

\* The optimistic variant's relay and mode control: the user clicks the
\* relay and mode buttons, the realtime UPDATE events arrive and another
\* writer changes the relays' rows.  The queries of the variant's fetchData
\* and poll are left waiting, the clock stands still and the sensor inserts
\* nothing.
NextOptimistic ==
  \/ \E id \in {1, 2} : OptimisticToggleRelay(id)
  \/ \E i \in DOMAIN writes : ToggleAnswer(i)
  \/ \E i \in DOMAIN writes : ToggleError(i)
  \/ \E i \in DOMAIN writes : OptimisticToggleDone(i)
  \/ OptimisticToggleMode \/ ModeAnswer \/ ModeError \/ OptimisticModeDone
  \/ UpdateHandler
  \/ \E id \in {1, 2} : ExternalRelayWrite(id)

SpecOptimistic == InitEmpty /\ [][NextOptimistic]_vars

\* The derived view: the bulk load has ended and data holds up to MaxView
\* readings of the last 24 hours, in ascending order; the user sets and
\* clears the dates and React renders the cards.
ViewRows == { Row(StartTime - a, c) : a \in ViewAges, c \in ViewTemps }
ViewData ==
  { d \in UNION { [1..n -> ViewRows] : n \in 0..MaxView } :
      \A i, j \in DOMAIN d : i < j => d[i].inserted_at < d[j].inserted_at }

InitView ==
  /\ now = StartTime
  /\ data \in ViewData
  /\ sensor_data = { data[i] : i \in DOMAIN data }
  /\ relay_control = [id \in {1, 2} |-> FALSE]
  /\ system_settings = TRUE
  /\ insertEvents = {}
  /\ dropped = {}
  /\ updateEvents = << >>
  /\ mounted = TRUE
  /\ relay1On = FALSE
  /\ relay2On = FALSE
  /\ automaticMode = TRUE
  /\ isLoading = FALSE
  /\ error = FALSE
  /\ lastUpdate = "time"
  /\ lastAlert = ""
  /\ load = Call("done", now - WindowHours, 0)
  /\ pollTimers = << 0 >>
  /\ poll = Idle
  /\ refresh = Idle
  /\ writes = << >>
  /\ modeWrite = NoModeWrite
  /\ startDate = Null
  /\ endDate = Null
  /\ screen = Spinner

NextView ==
  \/ SetStartDate
  \/ SetEndDate
  \/ ClearDates
  \/ Render

SpecView == InitView /\ [][NextView]_vars

\* ------------------------------------------------------------------ claims
Rows(d) == { d[i] : i \in DOMAIN d }
MaxInsertedAt(d) == CHOOSE t \in { r.inserted_at : r \in Rows(d) } : \A r \in Rows(d) : r.inserted_at <= t

\* C1: in every reachable state data is in non-decreasing inserted_at order,
\* whatever the interleaving of bulk-load completion, push INSERT events (in
\* any order), poll refetch completions and manual-refresh completions.
C1_DataSorted ==
  \A i \in 1..(Len(data) - 1) : data[i].inserted_at <= data[i + 1].inserted_at

\* C1's case: an INSERT event older than the last row of data is still to be
\* delivered, so the handler will put a row before rows it already holds.
C1_Witness ==
  /\ Len(data) >= 1
  /\ \E r \in insertEvents : r.inserted_at < data[Len(data)].inserted_at

\* C2: in every reachable state no two entries of data have the same
\* inserted_at.
C2_NoDuplicateTimestamps ==
  \A i, j \in DOMAIN data : i # j => data[i].inserted_at # data[j].inserted_at

\* C3: the push INSERT handler is idempotent: once it has run for a row r,
\* running it for r again would leave data as it is.
C3_IdempotentMerge ==
  [][\A r \in insertEvents : InsertHandler(r) => PushMerge(data', r) = data']_vars

\* C4: right after every update of data, every entry is at most WindowHours
\* old by the clock at the moment of the update.
C4_RetentionAfterUpdate ==
  [][data' # data => \A i \in DOMAIN data' : now' - data'[i].inserted_at <= WindowHours]_vars

\* C5: in part_002, after every update data holds at most MaxEntries
\* entries, and an INSERT event handled when data holds MaxEntries entries
\* drops exactly the first entry and puts the new row after the others.
C5_CountRetention ==
  [][/\ Len(data') <= MaxEntries
     /\ \A r \in insertEvents :
          (CountInsertHandler(r) /\ Len(data) = MaxEntries) => data' = Append(Tail(data), r)]_vars

\* C5's case: data is full, does not hold the oldest row of the backend, and
\* ends with a row newer than a row it never received, so its last update was
\* an INSERT event handled when it was full.
C5_Witness ==
  /\ Len(data) = MaxEntries
  /\ \E q \in sensor_data : q.inserted_at < data[1].inserted_at
  /\ \E r \in dropped : r \notin Rows(data) /\ r.inserted_at < data[MaxEntries].inserted_at

\* C6: a toggleRelay call made while automaticMode is true sends no write to
\* the backend and changes neither relay1On, relay2On, automaticMode nor data.
C6_ModeGate ==
  [][\A id \in {1, 2} :
       (automaticMode /\ ToggleRelay(id))
         => UNCHANGED << writes, relay_control, relay1On, relay2On, automaticMode, data >>]_vars

\* C6's case: a toggleRelay call has been blocked by the mode.
C6_Witness ==
  /\ mounted
  /\ lastAlert = "Please switch to manual mode to control relays"

\* The toggleRelay calls for relay id whose write the backend has not answered.
InFlight(w, id) == { i \in DOMAIN w : w[i].relayId = id /\ w[i].req.status = "waiting" }

\* C7: when the failure of an accepted toggleRelay(id) has been handled, the
\* local state of relay id is the value it had right before the toggle and
\* no write for that relay is in flight.
C7_Rollback ==
  [][\A i \in DOMAIN writes :
       (ToggleDone(i) /\ writes[i].req.status = "error")
         => /\ (IF writes[i].relayId = 1 THEN relay1On' ELSE relay2On') = writes[i].currentState
            /\ InFlight(writes', writes[i].relayId) = {}]_vars

\* C8: in every reachable state at most one write per relay is in flight.
C8_OneWritePerRelay ==
  \A id \in {1, 2} : Cardinality(InFlight(writes, id)) <= 1

\* C9: a poll run whose latest backend timestamp equals the maximum
\* inserted_at held in data at the moment of the comparison sends no
\* full-window query.
C9_NoRefetchWhenEqual ==
  [][(PollLatestDone /\ poll.req.status = "ok" /\ Len(poll.req.rows) > 0 /\ Len(data) > 0
        /\ poll.req.rows[1].inserted_at = MaxInsertedAt(data))
       => poll'.pc # "refetch"]_vars

\* The rows the sensor can insert while the component is mounted.
InWindow(r) == now - r.inserted_at <= WindowHours
Missed == { r \in dropped : InWindow(r) /\ r \notin Rows(data) }

\* C10: a row in the 24-hour window whose INSERT event is never delivered is
\* eventually in data (or has left the window), when polls keep succeeding:
\* again and again no such row is missing from data.
C10_EventuallyPolled == []<>(Missed = {})

\* C11: an update of data neither delays nor skips the next poll run: it
\* leaves the armed timer and its age as they are.
C11_FixedInterval ==
  [][(mounted /\ data' # data) => pollTimers' = pollTimers]_vars

\* C16: the responses of a pollData call whose timer has been cleared are not
\* applied to data, relay1On or relay2On.
C16_LateResponseDiscarded ==
  [][(poll.cancelled /\ (PollRefetchDone \/ PollRelay1Done \/ PollRelay2Done))
       => UNCHANGED << data, relay1On, relay2On >>]_vars

\* C12: no push INSERT event and no poll result is applied to data while the
\* initial bulk load is still in flight.
C12_StartupSequencing ==
  [][(/\ load.pc \notin {"done", "failed"}
      /\ \/ \E r \in insertEvents : InsertHandler(r)
         \/ PollRefetchDone)
       => data' = data]_vars

\* The results of the full-window queries that have been answered and not
\* yet handled.
FetchResults ==
  { c.req : c \in { c \in {load, poll, refresh} :
                     c.pc \in {"sensor", "refetch"} /\ c.req.status = "ok" } }

\* C13: a push event e and a fetch result F whose snapshot was taken before e
\* was inserted give the same data in either order of arrival.
C13_MergeCommutes ==
  \A e \in insertEvents, F \in FetchResults :
    (\A k \in DOMAIN F.rows : F.rows[k].inserted_at < e.inserted_at)
      => PushMerge(Received(data, F), e) = Received(PushMerge(data, e), F)

\* C14: after the initial sensor query has failed, while data is empty the
\* screen shows the loading state or the error.
C14_FailureVisible ==
  (load.pc = "failed" /\ data = << >>) => (isLoading \/ error)

\* The initial query has failed, a later poll or refresh has ended without
\* rows, and the error is what the screen shows.
C14_Witness ==
  /\ load.pc = "failed"
  /\ data = << >>
  /\ error
  /\ ~isLoading
  /\ lastUpdate = "time"

\* C15: a failed sensor query of the bulk load, of a poll or of a manual
\* refresh leaves data as it was.
C15_FailedFetchKeepsData ==
  [][(\/ LoadSensorDone /\ load.req.status = "error"
      \/ PollLatestDone /\ poll.req.status = "error"
      \/ PollRefetchDone /\ poll.req.status = "error"
      \/ RefreshDone /\ refresh.req.status = "error")
       => data' = data]_vars

\* The bulk load has failed and the failed answer of a manual refresh is to
\* be handled while data holds rows.
C15_Witness ==
  /\ load.pc = "failed"
  /\ refresh.pc = "sensor"
  /\ refresh.req.status = "error"
  /\ data # << >>

\* C17: for every non-empty view the cards show exactly one range text, the
\* one of the latest reading's temperature t: Relay 1 for 0 <= t <= 10,
\* Relay 2 for 11 <= t <= 20, Outside for every other t.
C17_ClassificationTotal ==
  (screen.cards /\ screen.filteredData # << >>) =>
    LET t == screen.filteredData[Len(screen.filteredData)].temperature
    IN  screen.rangeTexts =
          { IF t >= 0 /\ t <= 100 THEN "In Relay 1 range (0-10°C)"
            ELSE IF t >= 110 /\ t <= 200 THEN "In Relay 2 range (11-20°C)"
            ELSE "Outside control ranges" }

\* C18: the current temperature is null exactly when the view is empty, and
\* otherwise the temperature of the view's last element, 0 included.
C18_LatestOrNull ==
  screen.cards =>
    /\ screen.currentTemp = Null <=> screen.filteredData = << >>
    /\ screen.filteredData # << >> =>
         screen.currentTemp = << screen.filteredData[Len(screen.filteredData)].temperature >>

\* The average shown, in tenths of a degree, with its sign.
ShownAverage == IF screen.avgTemp.neg THEN -screen.avgTemp.tenths ELSE screen.avgTemp.tenths

\* C19 as stated: the average is '--' exactly when the view is empty, and
\* otherwise the sum of the view's temperatures divided by its length.
C19_AverageExact ==
  screen.cards =>
    /\ screen.avgTemp.dashes <=> screen.filteredData = << >>
    /\ screen.filteredData # << >> =>
         ShownAverage * Len(screen.filteredData) = SumTemperature(screen.filteredData)

\* C19: the average is '--' exactly when the view is empty, and otherwise the
\* sum of the view's temperatures divided by its length, rounded to one
\* decimal place: it has the quotient's sign and its magnitude is within
\* half a tenth of the quotient's, the larger of two equally near.
C19_AverageRounded ==
  screen.cards =>
    /\ screen.avgTemp.dashes <=> screen.filteredData = << >>
    /\ screen.filteredData # << >> =>
         LET n == Len(screen.filteredData)
             sum == SumTemperature(screen.filteredData)
             diff == screen.avgTemp.tenths * n - (IF sum < 0 THEN -sum ELSE sum)
         IN  /\ 2 * diff <= n
             /\ -2 * diff < n
             /\ screen.avgTemp.neg <=> sum < 0

\* The cards show the average of a date-filtered view of two readings whose
\* quotient has two decimal places.
C19_Witness ==
  /\ screen.cards
  /\ startDate # Null
  /\ Len(screen.filteredData) = 2
  /\ SumTemperature(screen.filteredData) % 2 = 1

\* C20: when the channel has delivered, while a toggleRelay call was in
\* flight (and no other), a value of its relay written after the call's own
\* write, the relay's local state is that value once the call's answer is
\* handled.
C20_ConfirmationWins ==
  [][\A i \in DOMAIN writes :
       (/\ ToggleDone(i)
        /\ writes[i].req.status = "ok"
        /\ writes[i].alone
        /\ writes[i].reported # << >>)
         => (IF writes[i].relayId = 1 THEN relay1On' ELSE relay2On') = writes[i].reported[1]]_vars

\* C24: a successful bulk load, poll refetch or manual refresh that returns
\* no rows leaves data as it was.
C24_EmptyBatchNoOp ==
  [][(\/ LoadSensorDone /\ load.req = OkRows(<< >>)
      \/ PollRefetchDone /\ poll.req = OkRows(<< >>)
      \/ RefreshDone /\ refresh.req = OkRows(<< >>))
       => data' = data]_vars

\* C26: a reading that is in data and still inside the 24-hour window is in
\* data after every update.
C26_NoReadingLost ==
  [][\A r \in Rows(data) : r.inserted_at >= TwentyFourHoursAgo' => r \in Rows(data')]_vars

\* C30: at most one poll interval timer is armed.
C30_OneTimer == Len(pollTimers) <= 1

\* The polling effect has run again for three changes of data (the bulk
\* load's result and two pushed readings) and one timer is armed.
C30_Witness ==
  /\ load.pc = "done"
  /\ Len(data) = 3
  /\ Len(pollTimers) = 1

\* C22: once the component is unmounted no poll timer is armed and no event
\* is on its way to the channel, no poll run is started and nothing is
\* applied to the component's state.
C22_ShutdownReleases ==
  [][~mounted' =>
       /\ pollTimers' = << >>
       /\ insertEvents' = {}
       /\ updateEvents' = << >>
       /\ ~mounted => /\ poll.pc = "idle" => poll'.pc = "idle"
                      /\ data' = data
                      /\ UNCHANGED << relay1On, relay2On >>]_vars

\* The component was unmounted while a pollData call was in flight and a
\* reading it has not merged is in the backend.
C22_Witness ==
  /\ ~mounted
  /\ poll.pc # "idle"
  /\ \E r \in sensor_data : r \notin Rows(data)

\* C23: when the push subscription is re-established after a loss, a
\* full-window query of sensor data is sent on the reconnect.
C23_RefetchOnReconnect ==
  [][Rejoin => \/ load'.pc = "sensor" /\ load' # load
               \/ poll'.pc = "refetch" /\ poll' # poll
               \/ refresh'.pc = "sensor" /\ refresh' # refresh]_vars

\* C25: after startup and after every manual refresh isLoading becomes false,
\* also when the backend does not answer the query.
C25_BoundedLoading == isLoading ~> ~isLoading

\* C27: when another writer has changed the backend's automatic_mode and the
\* UPDATE event is not delivered, the local automaticMode equals the backend
\* value from some poll run on.
C27_ModeConverges == <>[](automaticMode = system_settings)

C29_NoStaleOverwrite ==
  [][/\ (PollRelay1Done /\ relay1On /\ relay_control[1]) => relay1On'
     /\ (PollRelay2Done /\ relay2On /\ relay_control[2]) => relay2On']_vars

\* C21: in the optimistic variant, when the write of a toggle has failed and
\* the channel has delivered a value of its relay since the flip, the
\* relay's local state after the failure is handled is that value.
C21_RollbackToConfirmed ==
  [][\A i \in DOMAIN writes :
       (/\ OptimisticToggleDone(i)
        /\ writes[i].req.status = "error"
        /\ writes[i].alone
        /\ writes[i].reported # << >>)
         => (IF writes[i].relayId = 1 THEN relay1On' ELSE relay2On') = writes[i].reported[1]]_vars

====
